---- MODULE Spec2Model ----
(***************************************************************************)
(* A model of archipy/configs/base_config.py: the BaseConfig settings      *)
(* class, the order of its settings sources, its customize() hook and the  *)
(* class-level registry (global_config / set_global / reload).             *)
(***************************************************************************)
EXTENDS Integers, Sequences, FiniteSets, TLC

(***************************************************************************)
(* Bounds of the model.                                                    *)
(***************************************************************************)
\* how many of the five environment sources hold entries at the same time
MaxDefiners == 2

\* how many configuration instances are ever constructed
MaxInst == 2

\* how many times customize() is invoked in one run
MaxHooks == 2

\* how many variables the OS environment or the .env file holds
MaxVars == 1

\* how many calls of set_global or reload the threads make in all
MaxCalls == 3

\* how many configuration objects exist when threads reload
MaxHeap == 3

(***************************************************************************)
(* Raw values.  A source returns a nested dict; a value of it is a scalar  *)
(* or another dict.  Both are tagged so that they can be told apart.       *)
(***************************************************************************)
Scalar(v) == [kind |-> "scalar", val |-> v]

Dict(d) == [kind |-> "dict", val |-> d]

IsDict(x) == x.kind = "dict"

EmptyTree == [k \in {} |-> Scalar("LOCAL")]

\* EnvironmentType: LOCAL is the default of BaseConfig.ENVIRONMENT; the other
\* member stands for the rest of the enumeration.
EnvironmentType == {"LOCAL", "PRODUCTION"}

\* the two top-level fields of BaseConfig the model follows
TopKeys == {"ENVIRONMENT", "ELASTIC_APM"}

\* children of the ELASTIC_APM sub-structure
ChildKeys == {"ENVIRONMENT", "SERVICE_NAME"}

\* every dict over the child keys with scalar values (the empty one left out)
ChildDicts ==
    UNION {[ks -> {Scalar(v) : v \in EnvironmentType}] : ks \in (SUBSET ChildKeys) \ {{}}}

\* what one source may return in the merge checks: nothing, or one top-level
\* key holding a scalar or a nested dict
SourceTrees ==
    {EmptyTree}
        \cup {[k \in {key} |-> Scalar(v)] : key \in TopKeys, v \in EnvironmentType}
        \cup {[k \in {"ELASTIC_APM"} |-> Dict(d)] : d \in ChildDicts}

(***************************************************************************)
(* settings_customise_sources: the sources in the order returned, the      *)
(* first one having the highest priority.                                  *)
(***************************************************************************)
\* the order with the constructor arguments first (the settings library's
\* own default puts them there)
settings_customise_sources_init_first ==
    << "init_settings", "file_secret_settings", "PyprojectTomlConfigSettingsSource",
       "TomlConfigSettingsSource", "env_settings", "dotenv_settings" >>

\* the order with the .env file above the OS environment
settings_customise_sources_dotenv_first ==
    << "file_secret_settings", "PyprojectTomlConfigSettingsSource",
       "TomlConfigSettingsSource", "dotenv_settings", "env_settings",
       "init_settings" >>

settings_customise_sources ==
    << "file_secret_settings", "PyprojectTomlConfigSettingsSource",
       "TomlConfigSettingsSource", "env_settings", "dotenv_settings",
       "init_settings" >>

\* the five sources that read the process's surroundings
EnvSources ==
    {"file_secret_settings", "PyprojectTomlConfigSettingsSource",
     "TomlConfigSettingsSource", "env_settings", "dotenv_settings"}

AllSources == EnvSources \cup {"init_settings"}

(***************************************************************************)
(* The precedence merger.  deep_update puts the entries of `updating` into *)
(* `mapping`: a nested dict merges into a nested dict key by key; any      *)
(* other value replaces what is there.                                     *)
(***************************************************************************)
RECURSIVE deep_update(_, _)
deep_update(mapping, updating) ==
    [k \in (DOMAIN mapping) \cup (DOMAIN updating) |->
        IF k \in DOMAIN updating
        THEN IF k \in DOMAIN mapping /\ IsDict(mapping[k]) /\ IsDict(updating[k])
             THEN Dict(deep_update(mapping[k].val, updating[k].val))
             ELSE updating[k]
        ELSE mapping[k]]

\* the settings library's loop over the sources, the highest priority
\* first: what a source returns is updated with what the sources before it
\* gave, so a key an earlier source holds is never overwritten by a later one
RECURSIVE Merge(_, _, _)
Merge(order, srcs, state) ==
    IF order = << >>
    THEN state
    ELSE Merge(Tail(order), srcs, deep_update(srcs[Head(order)], state))

\* the merged tree of one construction BaseConfig(**kwargs)
settings_build_values(srcs, kwargs) ==
    Merge(settings_customise_sources,
          [s \in AllSources |-> IF s = "init_settings" THEN kwargs ELSE srcs[s]],
          EmptyTree)

(***************************************************************************)
(* The settings materializer: the merged tree bound onto the fields of     *)
(* BaseConfig.  A field the tree does not hold keeps its default; keys     *)
(* that are no fields are ignored (extra="ignore").                        *)
(***************************************************************************)
\* ENVIRONMENT: EnvironmentType = EnvironmentType.LOCAL
ENVIRONMENT_default == "LOCAL"

\* ElasticsearchAPMConfig().ENVIRONMENT, before customize() has run
ELASTIC_APM_ENVIRONMENT_default == "None"

\* whether the tree can be bound: ENVIRONMENT must be a member of the
\* enumeration, ELASTIC_APM a nested dict whose children are scalars
Validates(tree) ==
    /\ "ENVIRONMENT" \in DOMAIN tree =>
           /\ ~IsDict(tree["ENVIRONMENT"])
           /\ tree["ENVIRONMENT"].val \in EnvironmentType
    /\ "ELASTIC_APM" \in DOMAIN tree =>
           /\ IsDict(tree["ELASTIC_APM"])
           /\ \A c \in DOMAIN tree["ELASTIC_APM"].val :
                  ~IsDict(tree["ELASTIC_APM"].val[c])

\* the fields of the instance built from a tree that validates
Materialize(tree) ==
    [ENVIRONMENT |->
        IF "ENVIRONMENT" \in DOMAIN tree
        THEN tree["ENVIRONMENT"].val
        ELSE ENVIRONMENT_default,
     ELASTIC_APM |->
        [ENVIRONMENT |->
            IF /\ "ELASTIC_APM" \in DOMAIN tree
               /\ "ENVIRONMENT" \in DOMAIN tree["ELASTIC_APM"].val
            THEN tree["ELASTIC_APM"].val["ENVIRONMENT"].val
            ELSE ELASTIC_APM_ENVIRONMENT_default]]

(***************************************************************************)
(* The classes the classmethods are invoked through, and the state.        *)
(***************************************************************************)
\* BaseConfig and a subclass of it (the docstring's MyAppConfig)
Classes == {"BaseConfig", "MyAppConfig"}

\* a class's own __dict__ does not hold the attribute
NotInDict == 0

\* what reading the attribute on a class yields while no class of the MRO
\* holds it: `__global_config: T | None = None` in the body of a pydantic
\* model class declares a private attribute (the mangled name starts with a
\* single underscore), which the model metaclass takes out of the class
\* namespace; a read on the class then yields its ModelPrivateAttr
\* descriptor, which is not None
ModelPrivateAttr == -1

\* Python's None
None == -2

(***************************************************************************)
(* The environment-style sources read flat variables: a name and a string. *)
(* A name is the sequence of its pieces, the nesting delimiter being a     *)
(* piece of its own: ELASTIC_APM__ENVIRONMENT is                           *)
(* << "ELASTIC_APM", "__", "ENVIRONMENT" >>.                               *)
(***************************************************************************)
\* the OS environment and the .env file
EnvStyleSources == {"env_settings", "dotenv_settings"}

\* no variable at all
EmptyEnviron == [n \in {} |-> ""]

\* the variable names the model follows; the last one has a dot where the
\* delimiter would be
EnvNames ==
    { << "ENVIRONMENT" >>,
      << "ELASTIC_APM", "__", "ENVIRONMENT" >>,
      << "ELASTIC_APM", "__", "SERVICE_NAME" >>,
      << "ELASTIC_APM", ".", "ENVIRONMENT" >> }

\* the values of a variable: the empty string, or text
EnvValues == {"", "LOCAL", "PRODUCTION"}

\* what the OS environment or the .env file may hold
Environs ==
    UNION {[ns -> EnvValues] : ns \in {x \in SUBSET EnvNames : Cardinality(x) <= MaxVars}}

\* model_config without a nesting delimiter that occurs in the names
env_nested_delimiter_dot == "."

\* model_config: env_nested_delimiter="__"
env_nested_delimiter == "__"

\* model_config with empty values kept
env_ignore_empty_off == FALSE

\* model_config: env_ignore_empty=True
env_ignore_empty == TRUE

\* the variables a source goes on with: those with an empty value are
\* dropped when env_ignore_empty is set
parse_env_vars(env_vars) ==
    [n \in {m \in DOMAIN env_vars : ~(env_ignore_empty /\ env_vars[m] = "")} |->
        env_vars[n]]

\* the children of a nested field: the variables named
\* <field><delimiter><child>, the name split at the delimiter
explode_env_vars(field, env_vars) ==
    LET names == {n \in DOMAIN env_vars :
                     Len(n) = 3 /\ n[1] = field /\ n[2] = env_nested_delimiter}
    IN  [c \in {n[3] : n \in names} |->
            Scalar(env_vars[CHOOSE n \in names : n[3] = c])]

\* what an environment-style source returns: a scalar field from the
\* variable of its name, a nested field from its exploded variables, and
\* no entry for a field no variable gives
EnvSettingsSource(env) ==
    LET env_vars == parse_env_vars(env)
        nested == explode_env_vars("ELASTIC_APM", env_vars)
        keys == {k \in {"ENVIRONMENT"} : << k >> \in DOMAIN env_vars}
                    \cup {k \in {"ELASTIC_APM"} : DOMAIN nested # {}}
    IN  [k \in keys |->
            IF k = "ELASTIC_APM" THEN Dict(nested) ELSE Scalar(env_vars[<< k >>])]

(***************************************************************************)
(* The threads that call set_global and reload at the same time.           *)
(***************************************************************************)
Threads == {"t1", "t2"}

\* a thread that is in no call, having made n calls
Idle(n) ==
    [pc |-> "idle", step |-> 0, op |-> "-", cls |-> "-", config |-> NotInDict,
     calls |-> n]

VARIABLES
    BaseConfig__global_config,          \* per class: the instance in its __dict__
    BaseConfig__config_class_to_reload, \* per class: the type in its __dict__
    instances,      \* the configuration objects constructed so far
    sources,        \* what each of the five environment sources returns now
    result,         \* the last event and how it ended
    customized,     \* per instance: how many times customize() was invoked on it
    lastStored,     \* per class: the instance its last successful call stored
    lastAny,        \* the instance the last successful set or reload stored
    pristine,       \* per instance: built from the sources as they are now
    init_kwargs,    \* the constructor arguments of the last construction
    state,          \* the merged tree of the last construction
    environ,        \* the variables of the OS environment and of the .env file
    threads,        \* per thread: the call it is in and the line it is at
    overlap         \* two calls of set_global or reload have run at the same time

vars ==
    << BaseConfig__global_config, BaseConfig__config_class_to_reload, instances,
       sources, result, customized, lastStored, lastAny, pristine, init_kwargs,
       state, environ, threads, overlap >>

\* the flat variables and the threads, which the sequential operations on
\* the registry and the merge of parsed sources leave alone
env_thread_vars == << environ, threads, overlap >>

\* the event record
Event(op, cls, outcome, value) ==
    [op |-> op, cls |-> cls, outcome |-> outcome, value |-> value]

Init ==
    /\ BaseConfig__global_config = [c \in Classes |-> NotInDict]
    /\ BaseConfig__config_class_to_reload = [c \in Classes |-> "NotInDict"]
    /\ instances = << >>
    /\ sources = [s \in EnvSources |-> EmptyTree]
    /\ result = Event("start", "-", "returned", NotInDict)
    /\ customized = << >>
    /\ lastStored = [c \in Classes |-> NotInDict]
    /\ lastAny = NotInDict
    /\ pristine = << >>
    /\ init_kwargs = EmptyTree
    /\ state = EmptyTree
    /\ environ = [s \in EnvStyleSources |-> EmptyEnviron]
    /\ threads = [th \in Threads |-> Idle(0)]
    /\ overlap = FALSE

(***************************************************************************)
(* Attribute reads on a class: the class's own __dict__, then BaseConfig's *)
(* (every class of the model derives from it), then the placeholder.       *)
(***************************************************************************)
cls__global_config(cls) ==
    IF BaseConfig__global_config[cls] # NotInDict
    THEN BaseConfig__global_config[cls]
    ELSE IF BaseConfig__global_config["BaseConfig"] # NotInDict
         THEN BaseConfig__global_config["BaseConfig"]
         ELSE ModelPrivateAttr

cls__config_class_to_reload(cls) ==
    IF BaseConfig__config_class_to_reload[cls] # "NotInDict"
    THEN BaseConfig__config_class_to_reload[cls]
    ELSE IF BaseConfig__config_class_to_reload["BaseConfig"] # "NotInDict"
         THEN BaseConfig__config_class_to_reload["BaseConfig"]
         ELSE "ModelPrivateAttr"

(***************************************************************************)
(* customize(): the nested ELASTIC_APM.ENVIRONMENT takes the value of the  *)
(* top-level ENVIRONMENT.                                                  *)
(***************************************************************************)
\* a customize() that derives nothing
customize_noop(self) == self

customize(self) ==
    [self EXCEPT !.ELASTIC_APM = [@ EXCEPT !.ENVIRONMENT = self.ENVIRONMENT]]

\* every instance holding the one ElasticsearchAPMConfig() of the class body
ELASTIC_APM_object_shared(i) == 0

\* the nested object instance i holds: one of its own, the default of the
\* class body being copied for each instance
ELASTIC_APM_object(i) == i

\* the objects after config.customize(): the assignment goes to the nested
\* object of config, and shows in every instance that holds that object
customize_heap(heap, config) ==
    [j \in 1..Len(heap) |->
        IF j = config
        THEN customize(heap[config])
        ELSE IF ELASTIC_APM_object(j) = ELASTIC_APM_object(config)
             THEN [heap[j] EXCEPT !.ELASTIC_APM = customize(heap[config]).ELASTIC_APM]
             ELSE heap[j]]

\* a subclass may override customize(), and an override may raise;
\* BaseConfig's own body cannot
MayRaise(self) == self.type # "BaseConfig"

(***************************************************************************)
(* The surroundings: the application constructs instances and assigns      *)
(* their fields, and the sources change under the running process.         *)
(***************************************************************************)
\* what the OS environment holds in the registry checks
EnvTrees ==
    { EmptyTree,
      [k \in {"ENVIRONMENT"} |-> Scalar("PRODUCTION")],
      [k \in {"ENVIRONMENT"} |-> Scalar("NO_SUCH_MEMBER")] }

\* the constructor arguments in the registry checks
InitKwargs ==
    { EmptyTree,
      [k \in TopKeys |->
          IF k = "ENVIRONMENT"
          THEN Scalar("PRODUCTION")
          ELSE Dict([c \in {"ENVIRONMENT"} |-> Scalar("LOCAL")])] }

\* the object a construction of type t yields from a tree that validates
NewInstance(t, tree) ==
    [type |-> t,
     ENVIRONMENT |-> Materialize(tree).ENVIRONMENT,
     ELASTIC_APM |-> Materialize(tree).ELASTIC_APM]

\* config = MyAppConfig(**kwargs), by the application
Construct(t, kwargs) ==
    /\ Len(instances) < MaxInst
    /\ LET tree == settings_build_values(sources, kwargs) IN
        IF Validates(tree)
        THEN /\ instances' = Append(instances, NewInstance(t, tree))
             /\ pristine' = Append(pristine, kwargs = EmptyTree)
             /\ customized' = Append(customized, 0)
             /\ result' = Event("construct", "-", "returned", NotInDict)
        ELSE /\ UNCHANGED << instances, pristine, customized >>
             /\ result' = Event("construct", "-", "ValidationError", NotInDict)
    /\ UNCHANGED << BaseConfig__global_config, BaseConfig__config_class_to_reload,
                    sources, lastStored, lastAny, init_kwargs, state >>
    /\ UNCHANGED env_thread_vars

\* the value the application assigns in the registry checks
AssignedValues == {"PRODUCTION"}

\* config.ENVIRONMENT = v, by the application holding the instance
AssignField(i, v) ==
    /\ i \in 1..Len(instances)
    /\ instances[i].ENVIRONMENT # v
    /\ instances' = [instances EXCEPT ![i].ENVIRONMENT = v]
    /\ pristine' = [pristine EXCEPT ![i] = FALSE]
    /\ result' = Event("setattr", "-", "returned", NotInDict)
    /\ UNCHANGED << BaseConfig__global_config, BaseConfig__config_class_to_reload,
                    sources, customized, lastStored, lastAny, init_kwargs, state >>
    /\ UNCHANGED env_thread_vars

\* the OS environment changes under the process
EnvironChange(t) ==
    /\ sources["env_settings"] # t
    /\ sources' = [sources EXCEPT !["env_settings"] = t]
    /\ pristine' = [i \in 1..Len(pristine) |-> FALSE]
    /\ result' = Event("environ", "-", "returned", NotInDict)
    /\ UNCHANGED << BaseConfig__global_config, BaseConfig__config_class_to_reload,
                    instances, customized, lastStored, lastAny, init_kwargs, state >>
    /\ UNCHANGED env_thread_vars

(***************************************************************************)
(* global_config(): the attribute read on cls, or AssertionError when it   *)
(* is None.                                                                *)
(***************************************************************************)
global_config_outcome(cls) ==
    IF cls__global_config(cls) = None
    THEN Event("global_config", cls, "AssertionError", NotInDict)
    ELSE Event("global_config", cls, "returned", cls__global_config(cls))

global_config(cls) ==
    /\ result' = global_config_outcome(cls)
    /\ UNCHANGED << BaseConfig__global_config, BaseConfig__config_class_to_reload,
                    instances, sources, customized, lastStored, lastAny, pristine,
                    init_kwargs, state >>
    /\ UNCHANGED env_thread_vars

(***************************************************************************)
(* set_global(config): customize() on config, then the two assignments on  *)
(* cls.  `raises` says whether the (overridden) customize() raises; heap   *)
(* is the objects that exist when the call is made.                        *)
(***************************************************************************)
\* customize() run once by reload and once more by set_global
set_global_hook_calls_twice(config) == 2

\* the customize() calls one set_global makes
set_global_hook_calls(config) == 1

\* the two assignments placed before the call of customize()
SetGlobalOutcome_store_first(cls, config, heap, raises) ==
    [ok |-> ~raises,
     gc |-> [BaseConfig__global_config EXCEPT ![cls] = config],
     cr |-> [BaseConfig__config_class_to_reload EXCEPT ![cls] = heap[config].type],
     heap |-> IF raises THEN heap ELSE customize_heap(heap, config)]

\* both attributes reset to None when customize() raises
SetGlobalOutcome_reset_on_error(cls, config, heap, raises) ==
    IF raises
    THEN [ok |-> FALSE,
          gc |-> [BaseConfig__global_config EXCEPT ![cls] = None],
          cr |-> [BaseConfig__config_class_to_reload EXCEPT ![cls] = "None"],
          heap |-> heap]
    ELSE [ok |-> TRUE,
          gc |-> [BaseConfig__global_config EXCEPT ![cls] = config],
          cr |-> [BaseConfig__config_class_to_reload EXCEPT ![cls] = heap[config].type],
          heap |-> customize_heap(heap, config)]

\* the remembered type taken from the class the method is invoked through
SetGlobalOutcome_type_of_cls(cls, config, heap, raises) ==
    IF raises
    THEN [ok |-> FALSE,
          gc |-> BaseConfig__global_config,
          cr |-> BaseConfig__config_class_to_reload,
          heap |-> heap]
    ELSE [ok |-> TRUE,
          gc |-> [BaseConfig__global_config EXCEPT ![cls] = config],
          cr |-> [BaseConfig__config_class_to_reload EXCEPT ![cls] = cls],
          heap |-> customize_heap(heap, config)]

SetGlobalOutcome(cls, config, heap, raises) ==
    IF raises
    THEN [ok |-> FALSE,
          gc |-> BaseConfig__global_config,
          cr |-> BaseConfig__config_class_to_reload,
          heap |-> heap]
    ELSE [ok |-> TRUE,
          gc |-> [BaseConfig__global_config EXCEPT ![cls] = config],
          cr |-> [BaseConfig__config_class_to_reload EXCEPT ![cls] = heap[config].type],
          heap |-> customize_heap(heap, config)]

\* the part set_global and reload share: op names the caller's method
SetGlobalStep(op, cls, config, heap, raises) ==
    LET o == SetGlobalOutcome(cls, config, heap, raises) IN
    /\ customized' =
          [i \in 1..Len(heap) |->
              (IF i \in 1..Len(customized) THEN customized[i] ELSE 0)
                  + (IF i = config THEN set_global_hook_calls(config) ELSE 0)]
    /\ instances' = o.heap
    /\ BaseConfig__global_config' = o.gc
    /\ BaseConfig__config_class_to_reload' = o.cr
    /\ IF o.ok
       THEN /\ lastStored' = [lastStored EXCEPT ![cls] = config]
            /\ lastAny' = config
            /\ result' = Event(op, cls, "returned", NotInDict)
       ELSE /\ UNCHANGED << lastStored, lastAny >>
            /\ result' = Event(op, cls, "HookError", NotInDict)

\* customize() invocations so far
RECURSIVE SumSeq(_)
SumSeq(q) == IF q = << >> THEN 0 ELSE Head(q) + SumSeq(Tail(q))

HookCalls == SumSeq(customized)

set_global(cls, config, raises) ==
    /\ config \in 1..Len(instances)
    /\ HookCalls < MaxHooks
    /\ raises => MayRaise(instances[config])
    /\ SetGlobalStep("set_global", cls, config, instances, raises)
    /\ UNCHANGED << sources, pristine, init_kwargs, state >>
    /\ UNCHANGED env_thread_vars

(***************************************************************************)
(* reload(): RuntimeError when the remembered type is None; otherwise an   *)
(* instance of it is constructed with no arguments and handed to           *)
(* cls.set_global.                                                         *)
(***************************************************************************)
\* the type reload constructs
reload_class(cls) == cls__config_class_to_reload(cls)

\* reload passing an argument of its own
reload_kwargs_pinned == [k \in {"ENVIRONMENT"} |-> Scalar("PRODUCTION")]

\* the constructor arguments reload passes: none
reload_kwargs == EmptyTree

reload(cls, raises) ==
    LET t == reload_class(cls)
        tree == settings_build_values(sources, reload_kwargs)
        new == Len(instances) + 1
    IN
    UNCHANGED env_thread_vars /\
    (IF t = "None"
    THEN /\ result' = Event("reload", cls, "RuntimeError", NotInDict)
         /\ UNCHANGED << BaseConfig__global_config, BaseConfig__config_class_to_reload,
                         instances, sources, customized, lastStored, lastAny, pristine,
                         init_kwargs, state >>
    ELSE IF t = "ModelPrivateAttr"
    THEN \* the placeholder is not callable
         /\ result' = Event("reload", cls, "TypeError", NotInDict)
         /\ UNCHANGED << BaseConfig__global_config, BaseConfig__config_class_to_reload,
                         instances, sources, customized, lastStored, lastAny, pristine,
                         init_kwargs, state >>
    ELSE /\ Len(instances) < MaxInst
         /\ HookCalls < MaxHooks
         /\ IF ~Validates(tree)
            THEN /\ result' = Event("reload", cls, "ValidationError", NotInDict)
                 /\ UNCHANGED << BaseConfig__global_config,
                                 BaseConfig__config_class_to_reload, instances,
                                 customized, lastStored, lastAny, pristine >>
            ELSE /\ raises => t # "BaseConfig"
                 /\ pristine' = Append(pristine, reload_kwargs = EmptyTree)
                 /\ SetGlobalStep("reload", cls, new,
                                  Append(instances, NewInstance(t, tree)), raises)
         /\ UNCHANGED << sources, init_kwargs, state >>)

Next ==
    \/ \E t \in Classes, kwargs \in InitKwargs : Construct(t, kwargs)
    \/ \E i \in 1..MaxInst, v \in AssignedValues : AssignField(i, v)
    \/ \E t \in EnvTrees : EnvironChange(t)
    \/ \E cls \in Classes : global_config(cls)
    \/ \E cls \in Classes, config \in 1..MaxInst, raises \in BOOLEAN :
          set_global(cls, config, raises)
    \/ \E cls \in Classes, raises \in BOOLEAN : reload(cls, raises)

Spec == Init /\ [][Next]_vars

(***************************************************************************)
(* Threads.  set_global and reload hold no lock, so the statements of two  *)
(* calls interleave; a thread runs one statement at a time.                *)
(***************************************************************************)
\* the assignment of the instance placed before the call of customize()
set_global_steps_store_first ==
    << "store_global_config", "customize", "store_config_class" >>

\* the assignment of the type left out
set_global_steps_no_type == << "customize", "store_global_config" >>

\* the statements of set_global in the order they run: line 164, line 165,
\* line 166
set_global_steps == << "customize", "store_global_config", "store_config_class" >>

\* the calls the threads of ths have made
RECURSIVE CallsOf(_)
CallsOf(ths) ==
    IF ths = {}
    THEN 0
    ELSE LET th == CHOOSE x \in ths : TRUE
         IN  threads[th].calls + CallsOf(ths \ {th})

\* a call is under way in a thread other than th
OthersRunning(th) == \E o \in Threads \ {th} : threads[o].pc # "idle"

\* thread th enters cls.set_global(config)
CallSetGlobal(th, cls, config) ==
    /\ threads[th].pc = "idle"
    /\ CallsOf(Threads) < MaxCalls
    /\ config \in 1..Len(instances)
    /\ threads' = [threads EXCEPT ![th] =
                      [pc |-> "set_global", step |-> 1, op |-> "set_global",
                       cls |-> cls, config |-> config, calls |-> @.calls + 1]]
    /\ overlap' = (overlap \/ OthersRunning(th))
    /\ UNCHANGED << BaseConfig__global_config, BaseConfig__config_class_to_reload,
                    instances, sources, result, customized, lastStored, lastAny,
                    pristine, init_kwargs, state, environ >>

\* thread th enters cls.reload()
CallReload(th, cls) ==
    /\ threads[th].pc = "idle"
    /\ CallsOf(Threads) < MaxCalls
    /\ threads' = [threads EXCEPT ![th] =
                      [pc |-> "reload_check", step |-> 0, op |-> "reload",
                       cls |-> cls, config |-> NotInDict, calls |-> @.calls + 1]]
    /\ overlap' = (overlap \/ OthersRunning(th))
    /\ UNCHANGED << BaseConfig__global_config, BaseConfig__config_class_to_reload,
                    instances, sources, result, customized, lastStored, lastAny,
                    pristine, init_kwargs, state, environ >>

\* line 186: the remembered type is read and compared with None
ReloadCheck(th) ==
    /\ threads[th].pc = "reload_check"
    /\ IF reload_class(threads[th].cls) = "None"
       THEN /\ threads' = [threads EXCEPT ![th] = Idle(@.calls)]
            /\ result' = Event("reload", threads[th].cls, "RuntimeError", NotInDict)
       ELSE /\ threads' = [threads EXCEPT ![th].pc = "reload_new"]
            /\ UNCHANGED result
    /\ UNCHANGED << BaseConfig__global_config, BaseConfig__config_class_to_reload,
                    instances, sources, customized, lastStored, lastAny, pristine,
                    init_kwargs, state, environ, overlap >>

\* line 189: the remembered type is read again and called with no arguments
ReloadNew(th) ==
    LET t == reload_class(threads[th].cls)
        tree == settings_build_values(sources, reload_kwargs)
    IN
    /\ threads[th].pc = "reload_new"
    /\ IF t \notin Classes
       THEN /\ threads' = [threads EXCEPT ![th] = Idle(@.calls)]
            /\ result' = Event("reload", threads[th].cls, "TypeError", NotInDict)
            /\ UNCHANGED << instances, customized, pristine >>
       ELSE IF ~Validates(tree)
       THEN /\ threads' = [threads EXCEPT ![th] = Idle(@.calls)]
            /\ result' = Event("reload", threads[th].cls, "ValidationError", NotInDict)
            /\ UNCHANGED << instances, customized, pristine >>
       ELSE /\ Len(instances) < MaxHeap
            /\ instances' = Append(instances, NewInstance(t, tree))
            /\ customized' = Append(customized, 0)
            /\ pristine' = Append(pristine, reload_kwargs = EmptyTree)
            /\ threads' = [threads EXCEPT ![th].pc = "set_global",
                                          ![th].step = 1,
                                          ![th].config = Len(instances) + 1]
            /\ UNCHANGED result
    /\ UNCHANGED << BaseConfig__global_config, BaseConfig__config_class_to_reload,
                    sources, lastStored, lastAny, init_kwargs, state, environ,
                    overlap >>

\* one statement of set_global, in a call of set_global or in the call
\* reload makes at line 190
SetGlobalLine(th) ==
    LET me == threads[th]
        line == set_global_steps[me.step]
    IN
    /\ me.pc = "set_global"
    /\ IF line = "customize"
       THEN /\ instances' = customize_heap(instances, me.config)
            /\ customized' = [customized EXCEPT ![me.config] =
                                  @ + set_global_hook_calls(me.config)]
       ELSE UNCHANGED << instances, customized >>
    /\ IF line = "store_global_config"
       THEN BaseConfig__global_config' =
                [BaseConfig__global_config EXCEPT ![me.cls] = me.config]
       ELSE UNCHANGED BaseConfig__global_config
    /\ IF line = "store_config_class"
       THEN BaseConfig__config_class_to_reload' =
                [BaseConfig__config_class_to_reload EXCEPT ![me.cls] =
                    instances[me.config].type]
       ELSE UNCHANGED BaseConfig__config_class_to_reload
    /\ IF me.step = Len(set_global_steps)
       THEN /\ threads' = [threads EXCEPT ![th] = Idle(@.calls)]
            /\ result' = Event(me.op, me.cls, "returned", NotInDict)
            /\ lastStored' = [lastStored EXCEPT ![me.cls] = me.config]
            /\ lastAny' = me.config
       ELSE /\ threads' = [threads EXCEPT ![th].step = @ + 1]
            /\ UNCHANGED << result, lastStored, lastAny >>
    /\ UNCHANGED << sources, pristine, init_kwargs, state, environ, overlap >>

\* the threads call through BaseConfig, as the class docstring does
NextThreads ==
    \/ \E t \in Classes : Construct(t, EmptyTree)
    \/ \E cls \in Classes : global_config(cls)
    \/ \E th \in Threads, config \in 1..MaxHeap :
          CallSetGlobal(th, "BaseConfig", config)
    \/ \E th \in Threads : CallReload(th, "BaseConfig")
    \/ \E th \in Threads : ReloadCheck(th)
    \/ \E th \in Threads : ReloadNew(th)
    \/ \E th \in Threads : SetGlobalLine(th)

SpecThreads == Init /\ [][NextThreads]_vars

(***************************************************************************)
(* The merge on its own: the five environment sources take any of the      *)
(* SourceTrees, and a construction builds the merged tree from them and    *)
(* from its constructor arguments.                                         *)
(***************************************************************************)
\* the sources that return entries
Definers(srcs) == {x \in EnvSources : srcs[x] # EmptyTree}

\* a file, the environment or a secret changes
SourceChange(src, t) ==
    /\ sources[src] # t
    /\ Cardinality(Definers([sources EXCEPT ![src] = t])) <= MaxDefiners
    /\ sources' = [sources EXCEPT ![src] = t]
    /\ UNCHANGED environ
    /\ init_kwargs' = EmptyTree
    /\ state' = EmptyTree
    /\ result' = Event("environ", "-", "returned", NotInDict)
    /\ UNCHANGED << BaseConfig__global_config, BaseConfig__config_class_to_reload,
                    instances, customized, lastStored, lastAny, pristine >>
    /\ UNCHANGED << threads, overlap >>

\* BaseConfig(**kwargs) up to the validation of the merged tree
BuildValues(kwargs) ==
    /\ state' = settings_build_values(sources, kwargs)
    /\ init_kwargs' = kwargs
    /\ result' = Event("build", "-",
                       IF Validates(settings_build_values(sources, kwargs))
                       THEN "returned" ELSE "ValidationError",
                       NotInDict)
    /\ UNCHANGED << BaseConfig__global_config, BaseConfig__config_class_to_reload,
                    instances, sources, customized, lastStored, lastAny, pristine >>
    /\ UNCHANGED env_thread_vars

\* the OS environment or the .env file changes: the source returns what it
\* parses from the new variables
SetEnviron(src, env) ==
    /\ environ[src] # env
    /\ environ' = [environ EXCEPT ![src] = env]
    /\ sources' = [sources EXCEPT ![src] = EnvSettingsSource(env)]
    /\ init_kwargs' = EmptyTree
    /\ state' = EmptyTree
    /\ result' = Event("environ", "-", "returned", NotInDict)
    /\ UNCHANGED << BaseConfig__global_config, BaseConfig__config_class_to_reload,
                    instances, customized, lastStored, lastAny, pristine >>
    /\ UNCHANGED << threads, overlap >>

\* what configs.toml may hold in the checks of the environment-style sources
TomlTrees ==
    { EmptyTree,
      [k \in {"ENVIRONMENT"} |-> Scalar("LOCAL")],
      [k \in {"ELASTIC_APM"} |-> Dict([c \in {"SERVICE_NAME"} |-> Scalar("LOCAL")])] }

NextEnv ==
    \/ \E src \in EnvStyleSources, env \in Environs : SetEnviron(src, env)
    \/ \E t \in TomlTrees : SourceChange("TomlConfigSettingsSource", t)
    \/ \E kwargs \in InitKwargs : BuildValues(kwargs)

SpecEnv == Init /\ [][NextEnv]_vars

NextMerge ==
    \/ \E src \in EnvSources, t \in SourceTrees : SourceChange(src, t)
    \/ \E kwargs \in SourceTrees : BuildValues(kwargs)

SpecMerge == Init /\ [][NextMerge]_vars

(***************************************************************************)
(* Properties.                                                             *)
(***************************************************************************)
\* the instance fields an application reads
Fields(self) == [ENVIRONMENT |-> self.ENVIRONMENT, ELASTIC_APM |-> self.ELASTIC_APM]

\* customize() invocations on instance i so far
Count(i) == IF i \in 1..Len(customized) THEN customized[i] ELSE 0

\* a set_global has succeeded in this process
EverSet == lastAny # NotInDict

\* C1: before any successful set_global, global_config() fails with
\* AssertionError and returns no value.
C1_GetBeforeSetRaises ==
    (result.op = "global_config" /\ ~EverSet) =>
        (result.outcome = "AssertionError" /\ result.value = NotInDict)

\* C2: before any successful set_global, reload() fails with RuntimeError,
\* which is not what global_config() raises there, and both attributes stay
\* absent.
C2_ReloadBeforeSetRaisesRuntimeError ==
    (result.op = "reload" /\ ~EverSet) =>
        /\ result.outcome = "RuntimeError"
        /\ global_config_outcome(result.cls).outcome # "RuntimeError"
        /\ \A c \in Classes :
               /\ BaseConfig__global_config[c] = NotInDict
               /\ BaseConfig__config_class_to_reload[c] = "NotInDict"

\* C3: global_config() returns the instance the most recent successful
\* set_global or reload stored, and customize() has run on it.
C3_GetReturnsLastStored ==
    (result.op = "global_config" /\ EverSet) =>
        /\ result.outcome = "returned"
        /\ result.value = lastAny
        /\ Count(lastAny) >= 1

\* the order the documentation gives, the highest priority first
DocumentedOrder ==
    << "file_secret_settings", "PyprojectTomlConfigSettingsSource",
       "TomlConfigSettingsSource", "env_settings", "dotenv_settings",
       "init_settings" >>

\* what the source at place i of the documented order gave the last build
Given(i) ==
    IF DocumentedOrder[i] = "init_settings"
    THEN init_kwargs
    ELSE sources[DocumentedOrder[i]]

\* the key paths of the two fields
FieldPaths == { << "ENVIRONMENT" >>, << "ELASTIC_APM", "ENVIRONMENT" >> }

HasLeaf(tree, path) ==
    /\ path[1] \in DOMAIN tree
    /\ Len(path) = 2 =>
           /\ IsDict(tree[path[1]])
           /\ path[2] \in DOMAIN tree[path[1]].val

LeafAt(tree, path) ==
    IF Len(path) = 1 THEN tree[path[1]].val ELSE tree[path[1]].val[path[2]].val

FieldAt(fields, path) ==
    IF Len(path) = 1 THEN fields.ENVIRONMENT ELSE fields.ELASTIC_APM.ENVIRONMENT

DefaultAt(path) == IF Len(path) = 1 THEN "LOCAL" ELSE "None"

\* C4: the materialized value of a key is the one of the earliest source of
\* the documented order that defines it (so of two sources that define it
\* the later one never wins, a constructor argument loses to the five other
\* sources), and the default only when no source defines it.
C4_EarliestSourceWins ==
    (result.op = "build" /\ result.outcome = "returned") =>
        \A path \in FieldPaths :
            LET defs == {i \in 1..Len(DocumentedOrder) : HasLeaf(Given(i), path)} IN
            IF defs = {}
            THEN FieldAt(Materialize(state), path) = DefaultAt(path)
            ELSE \A i \in defs :
                    (\A j \in defs : i <= j) =>
                        FieldAt(Materialize(state), path) = LeafAt(Given(i), path)

\* a constructor argument and the .env file define ENVIRONMENT differently,
\* and the .env file's value is the one materialized
C4_Witness ==
    /\ result.op = "build"
    /\ result.outcome = "returned"
    /\ "ENVIRONMENT" \in DOMAIN init_kwargs
    /\ "ENVIRONMENT" \in DOMAIN sources["dotenv_settings"]
    /\ init_kwargs["ENVIRONMENT"] # sources["dotenv_settings"]["ENVIRONMENT"]
    /\ Materialize(state).ENVIRONMENT = sources["dotenv_settings"]["ENVIRONMENT"].val

\* C5: a reload() that raises leaves both attributes of every class, what
\* global_config() returns, and every existing instance as they were.
C5_ReloadAllOrNothing ==
    [][ (result'.op = "reload" /\ result'.outcome # "returned") =>
            /\ BaseConfig__global_config' = BaseConfig__global_config
            /\ BaseConfig__config_class_to_reload' = BaseConfig__config_class_to_reload
            /\ \A c \in Classes : global_config_outcome(c)' = global_config_outcome(c)
            /\ \A i \in 1..Len(instances) : instances'[i] = instances[i]
      ]_vars

\* a reload has failed in validation or in customize() while an instance
\* was registered, and global_config() still yields that instance
C5_Witness ==
    /\ result.op = "reload"
    /\ result.outcome \in {"ValidationError", "HookError"}
    /\ lastStored[result.cls] # NotInDict
    /\ cls__global_config(result.cls) = lastStored[result.cls]

\* C6: a successful reload() right after set_global(i1): the current
\* instance is an object other than i1, of the type set_global(i1)
\* recorded, and the recorded type is what it was.
C6_ReloadSwapsInstance ==
    [][ ( /\ result.op = "set_global" /\ result.outcome = "returned"
          /\ result'.op = "reload" /\ result'.outcome = "returned" ) =>
            \A c \in Classes :
                /\ cls__global_config(c)' \in 1..Len(instances')
                /\ cls__global_config(c)' # lastAny
                /\ instances'[cls__global_config(c)'].type = instances[lastAny].type
                /\ cls__config_class_to_reload(c)' = instances[lastAny].type
                /\ cls__config_class_to_reload(c)' = cls__config_class_to_reload(c)
      ]_vars

\* C7, as claimed: a successful reload() right after set_global(i1), no
\* source having changed in between, stores an instance whose fields all
\* equal those of i1, whatever i1 is.
C7_ReloadKeepsFields ==
    [][ ( /\ result.op = "set_global" /\ result.outcome = "returned"
          /\ result'.op = "reload" /\ result'.outcome = "returned" ) =>
            Fields(instances'[lastAny']) = Fields(instances[lastAny])
      ]_vars

\* C7, amended: a successful reload() invoked while the current instance is
\* one that was constructed with no arguments from the sources as they are
\* now, and not assigned to by its holder, stores an instance whose fields
\* all equal those of that instance.
C7_ReloadKeepsFieldsOfPristine ==
    [][ ( /\ result'.op = "reload" /\ result'.outcome = "returned"
          /\ cls__global_config(result'.cls) \in 1..Len(instances)
          /\ pristine[cls__global_config(result'.cls)] ) =>
            Fields(instances'[lastAny']) =
                Fields(instances[cls__global_config(result'.cls)])
      ]_vars

\* instance 1 was constructed with no arguments, registered, and reloaded
\* into instance 2 with the same fields
C7_Witness ==
    /\ result.op = "reload"
    /\ result.outcome = "returned"
    /\ lastAny = 2
    /\ pristine[1]
    /\ Count(1) >= 1
    /\ Fields(instances[2]) = Fields(instances[1])

\* C8: the instance the last successful set_global or reload stored,
\* through whichever class, is what global_config() returns and its type
\* what reload() constructs, through every class.
C8_OneRegistryForAllClasses ==
    EverSet =>
        \A c \in Classes :
            /\ global_config_outcome(c).outcome = "returned"
            /\ global_config_outcome(c).value = lastAny
            /\ reload_class(c) = instances[lastAny].type

\* the places of the documented order that hold key in the last build
Holders(key) == {i \in 1..Len(DocumentedOrder) : key \in DOMAIN Given(i)}

\* C9: when exactly two sources hold a key, two nested dicts give the union
\* of their children, each child from the higher source that has it, and
\* two different shapes give the higher source's value whole.
C9_DeepMerge ==
    result.op = "build" =>
        \A key \in TopKeys : \A hi, lo \in 1..Len(DocumentedOrder) :
            (hi < lo /\ Holders(key) = {hi, lo}) =>
                LET h == Given(hi)[key]
                    l == Given(lo)[key]
                IN  /\ key \in DOMAIN state
                    /\ (IsDict(h) /\ IsDict(l)) =>
                           /\ IsDict(state[key])
                           /\ DOMAIN state[key].val = (DOMAIN h.val) \cup (DOMAIN l.val)
                           /\ \A c \in DOMAIN state[key].val :
                                  state[key].val[c] =
                                      IF c \in DOMAIN h.val THEN h.val[c] ELSE l.val[c]
                    /\ (IsDict(h) # IsDict(l)) => state[key] = h

\* the .env file holds {ELASTIC_APM: {ENVIRONMENT: ..}}, the OS environment
\* {ELASTIC_APM: {SERVICE_NAME: ..}}, and the merged tree holds both children
C9_Witness ==
    /\ result.op = "build"
    /\ Holders("ELASTIC_APM") = {4, 5}
    /\ IsDict(Given(4)["ELASTIC_APM"]) /\ IsDict(Given(5)["ELASTIC_APM"])
    /\ DOMAIN Given(4)["ELASTIC_APM"].val = {"SERVICE_NAME"}
    /\ DOMAIN Given(5)["ELASTIC_APM"].val = {"ENVIRONMENT"}
    /\ DOMAIN state["ELASTIC_APM"].val = {"SERVICE_NAME", "ENVIRONMENT"}

\* C10, as claimed: one customize() per successful set_global or reload, on
\* the instance stored; none by global_config() nor by a reload() that
\* raises.
C10_HookOncePerSuccess ==
    [][ /\ (result'.op \in {"set_global", "reload"} /\ result'.outcome = "returned") =>
               \A i \in 1..Len(instances') :
                   customized'[i] = Count(i) + (IF i = lastAny' THEN 1 ELSE 0)
        /\ result'.op = "global_config" => customized' = customized
        /\ (result'.op = "reload" /\ result'.outcome # "returned") =>
               HookCalls' = HookCalls
      ]_vars

\* C10, amended: one customize() per successful set_global or reload, on the
\* instance stored; none by global_config() nor by a reload() that raises
\* before customize() is reached; one by a reload() in which customize()
\* itself raises.
C10_HookOncePerCall ==
    [][ /\ (result'.op \in {"set_global", "reload"} /\ result'.outcome = "returned") =>
               \A i \in 1..Len(instances') :
                   customized'[i] = Count(i) + (IF i = lastAny' THEN 1 ELSE 0)
        /\ result'.op = "global_config" => customized' = customized
        /\ (result'.op = "reload"
               /\ result'.outcome \in {"RuntimeError", "TypeError", "ValidationError"}) =>
               HookCalls' = HookCalls
        /\ (result'.op = "reload" /\ result'.outcome = "HookError") =>
               HookCalls' = HookCalls + 1
      ]_vars

\* a set_global and then a reload have succeeded, each with one customize()
\* on the instance it stored
C10_Witness ==
    /\ result.op = "reload"
    /\ result.outcome = "returned"
    /\ lastAny = 2
    /\ customized = << 1, 1 >>

\* C11: right after a successful set_global or reload, the instance it
\* stored has ELASTIC_APM.ENVIRONMENT equal to its ENVIRONMENT, whatever
\* the nested field held before.
C11_NestedEnvironmentFollows ==
    [][ (result'.op \in {"set_global", "reload"} /\ result'.outcome = "returned") =>
            instances'[lastAny'].ELASTIC_APM.ENVIRONMENT = instances'[lastAny'].ENVIRONMENT
      ]_vars

\* the only instance was constructed with ENVIRONMENT given as PRODUCTION
\* and ELASTIC_APM.ENVIRONMENT as LOCAL, and after set_global both are
\* PRODUCTION
C11_Witness ==
    /\ result.op = "set_global"
    /\ result.outcome = "returned"
    /\ Len(instances) = 1
    /\ lastAny = 1
    /\ ~pristine[1]
    /\ sources["env_settings"] = EmptyTree
    /\ instances[1].ENVIRONMENT = "PRODUCTION"
    /\ instances[1].ELASTIC_APM.ENVIRONMENT = "PRODUCTION"

\* the variable name of a field path, its pieces joined with "__"
FlatName(path) == IF Len(path) = 1 THEN path ELSE << path[1], "__", path[2] >>

\* the variables of env that hold text
Texts(env) == {n \in DOMAIN env : env[n] # ""}

\* the natively nested entries that say what the variables of env say:
\* NAME=v is {NAME: v}, PARENT__CHILD=v is {PARENT: {CHILD: v}}
NativeTree(env) ==
    LET children == {c \in ChildKeys : << "ELASTIC_APM", "__", c >> \in Texts(env)}
        keys == {k \in {"ENVIRONMENT"} : << k >> \in Texts(env)}
                    \cup {k \in {"ELASTIC_APM"} : children # {}}
    IN  [k \in keys |->
            IF k = "ELASTIC_APM"
            THEN Dict([c \in children |-> Scalar(env[<< "ELASTIC_APM", "__", c >>])])
            ELSE Scalar(env[<< k >>])]

\* C12: what an environment-style source returns for its variables is the
\* natively nested tree of the same entries, and the merged tree of a
\* construction is the one a structured source holding that tree at the
\* same place of the order would give.
C12_FlatEqualsNested ==
    /\ \A src \in EnvStyleSources : sources[src] = NativeTree(environ[src])
    /\ result.op = "build" =>
           state = settings_build_values(
                       [src \in EnvSources |->
                           IF src \in EnvStyleSources
                           THEN NativeTree(environ[src])
                           ELSE sources[src]],
                       init_kwargs)

\* the OS environment holds ELASTIC_APM__ENVIRONMENT=PRODUCTION, configs.toml
\* {ELASTIC_APM: {SERVICE_NAME: ..}}, and the merged tree of a construction
\* holds both children under ELASTIC_APM
C12_Witness ==
    /\ result.op = "build"
    /\ << "ELASTIC_APM", "__", "ENVIRONMENT" >> \in DOMAIN environ["env_settings"]
    /\ environ["env_settings"][<< "ELASTIC_APM", "__", "ENVIRONMENT" >>] = "PRODUCTION"
    /\ "ELASTIC_APM" \in DOMAIN sources["TomlConfigSettingsSource"]
    /\ "ELASTIC_APM" \in DOMAIN state
    /\ DOMAIN state["ELASTIC_APM"].val = {"ENVIRONMENT", "SERVICE_NAME"}
    /\ state["ELASTIC_APM"].val["ENVIRONMENT"] = Scalar("PRODUCTION")

\* the source at place i of the documented order defines the field at
\* path: an environment-style source by a variable of that name with a
\* value that is not empty, any other source by a leaf of its tree
DefinesText(i, path) ==
    IF DocumentedOrder[i] \in EnvStyleSources
    THEN /\ FlatName(path) \in DOMAIN environ[DocumentedOrder[i]]
         /\ environ[DocumentedOrder[i]][FlatName(path)] # ""
    ELSE HasLeaf(Given(i), path)

\* the value the source at place i gives the field at path
TextAt(i, path) ==
    IF DocumentedOrder[i] \in EnvStyleSources
    THEN environ[DocumentedOrder[i]][FlatName(path)]
    ELSE LeafAt(Given(i), path)

\* C19: a variable with an empty value in the OS environment or the .env
\* file defines nothing: the merged tree holds, for each field, the value of
\* the earliest source of the order that defines it otherwise, and no entry
\* (so the default is materialized) when no source does.
C19_EmptyValueIsAbsent ==
    result.op = "build" =>
        \A path \in FieldPaths :
            LET defs == {i \in 1..Len(DocumentedOrder) : DefinesText(i, path)} IN
            IF defs = {}
            THEN /\ ~HasLeaf(state, path)
                 /\ result.outcome = "returned" =>
                        FieldAt(Materialize(state), path) = DefaultAt(path)
            ELSE /\ HasLeaf(state, path)
                 /\ \A i \in defs :
                        (\A j \in defs : i <= j) => LeafAt(state, path) = TextAt(i, path)

\* the OS environment holds ENVIRONMENT with an empty value, the .env file
\* ENVIRONMENT=PRODUCTION, and PRODUCTION is what a construction takes
C19_Witness ==
    /\ result.op = "build"
    /\ result.outcome = "returned"
    /\ << "ENVIRONMENT" >> \in DOMAIN environ["env_settings"]
    /\ environ["env_settings"][<< "ENVIRONMENT" >>] = ""
    /\ << "ENVIRONMENT" >> \in DOMAIN environ["dotenv_settings"]
    /\ environ["dotenv_settings"][<< "ENVIRONMENT" >>] = "PRODUCTION"
    /\ Materialize(state).ENVIRONMENT = "PRODUCTION"

\* C13: a reload() leaves every field, top-level and nested, of every
\* instance that existed before it as it was, the instance that was current
\* among them, customize() on the new instance included.
C13_ReloadKeepsOldInstance ==
    [][ result'.op = "reload" =>
            \A i \in 1..Len(instances) : Fields(instances'[i]) = Fields(instances[i])
      ]_vars

\* instance 1 was registered and customized under ENVIRONMENT=LOCAL, a
\* reload() has stored instance 2 customized under PRODUCTION, and the
\* nested field of instance 1 is still LOCAL
C13_Witness ==
    /\ result.op = "reload"
    /\ result.outcome = "returned"
    /\ lastAny = 2
    /\ Count(1) >= 1
    /\ instances[1].ELASTIC_APM.ENVIRONMENT = "LOCAL"
    /\ instances[2].ELASTIC_APM.ENVIRONMENT = "PRODUCTION"

\* C14: customize() is invoked at most once on any one instance, over every
\* sequence of set_global and reload calls.
C14_HookAtMostOncePerInstance ==
    \A i \in 1..Len(instances) : Count(i) <= 1

\* a read of the two attributes through class c yields an instance and a
\* type
Present(c) ==
    /\ cls__global_config(c) \in 1..Len(instances)
    /\ cls__config_class_to_reload(c) \in Classes

C17_CurrentIffBoundType ==
    \A c \in Classes :
        /\ (BaseConfig__global_config[c] = NotInDict)
               <=> (BaseConfig__config_class_to_reload[c] = "NotInDict")
        /\ (cls__global_config(c) \in 1..Len(instances))
               <=> (cls__config_class_to_reload(c) \in Classes)
        /\ cls__global_config(c) \in 1..Len(instances) =>
               cls__config_class_to_reload(c) = instances[cls__global_config(c)].type

\* an instance of MyAppConfig was registered through BaseConfig, and the
\* type BaseConfig remembers is MyAppConfig
C17_Witness ==
    /\ BaseConfig__global_config["BaseConfig"] \in 1..Len(instances)
    /\ instances[BaseConfig__global_config["BaseConfig"]].type = "MyAppConfig"
    /\ BaseConfig__config_class_to_reload["BaseConfig"] = "MyAppConfig"
    /\ result.op \in {"set_global", "reload"}
    /\ result.outcome = "returned"

\* C16: with set_global and reload running in other threads, an instance
\* that global_config() returns, and an instance that a class attribute
\* holds, has had customize() run on it to the end: it is the one a
\* finished call stored or the one a call under way has stored after its
\* customize(), never one still under construction or not yet customized.
C16_GetSeesCustomizedInstance ==
    /\ (result.op = "global_config" /\ result.value \in 1..Len(instances)) =>
           Count(result.value) >= 1
    /\ \A c \in Classes :
           BaseConfig__global_config[c] \in 1..Len(instances) =>
               Count(BaseConfig__global_config[c]) >= 1
    /\ \A th \in Threads :
           (threads[th].pc = "set_global" /\ Count(threads[th].config) = 0) =>
               \A c \in Classes : BaseConfig__global_config[c] # threads[th].config

\* global_config() has returned the instance a reload() in another thread
\* constructed and stored, that reload() not having finished yet
C16_Witness ==
    /\ result.op = "global_config"
    /\ result.value \in 1..Len(instances)
    /\ \E th \in Threads :
           /\ threads[th].op = "reload"
           /\ threads[th].pc = "set_global"
           /\ threads[th].config = result.value
           /\ Count(result.value) = 1

\* the type a class remembers is not the type of the instance it holds
Mismatch(c) ==
    /\ BaseConfig__global_config[c] \in 1..Len(instances)
    /\ BaseConfig__config_class_to_reload[c] #
           instances[BaseConfig__global_config[c]].type

\* C18: the remembered type differs from the type of the stored instance,
\* no call being under way, only after two calls of set_global or reload
\* have run at the same time; calls that follow one another never leave
\* that state.
C18_MismatchOnlyByRace ==
    ((\A th \in Threads : threads[th].pc = "idle") /\ ~overlap) =>
        \A c \in Classes : ~Mismatch(c)

\* two set_global calls with a BaseConfig and a MyAppConfig instance have
\* overlapped and finished, global_config() returns the one, and a reload()
\* running alone has just constructed an instance of the type of the other
C18_Witness ==
    /\ overlap
    /\ \E th \in Threads :
           /\ threads[th].op = "reload"
           /\ threads[th].pc = "set_global"
           /\ threads[th].step = 1
           /\ ~OthersRunning(th)
           /\ Mismatch(threads[th].cls)
           /\ Count(threads[th].config) = 0
           /\ instances[threads[th].config].type =
                  BaseConfig__config_class_to_reload[threads[th].cls]
           /\ instances[threads[th].config].type #
                  instances[cls__global_config(threads[th].cls)].type

====
